---- MODULE Spec2Model ----
(***************************************************************************)
(* Backend/main.py: the FastAPI proxy in front of the Hugging Face         *)
(* inference API.  A handler of POST /api/generate validates the body,     *)
(* builds the payload, calls the primary model through the tenacity retry  *)
(* wrapper, falls back to a second model, and shapes the response.  A      *)
(* handler of GET /health probes the primary model once.                   *)
(*                                                                         *)
(* Handlers are coroutines: a step of the model is the code a handler runs *)
(* between two suspension points (the awaits on the network and on the     *)
(* retry sleep).                                                           *)
(***************************************************************************)
EXTENDS Integers, Sequences, FiniteSets, TLC

VARIABLES
    HUGGINGFACE_TOKEN,  \* os.getenv('HUGGINGFACE_TOKEN'), read once at import
    concurrency,        \* how many requests the HTTP server runs at a time
    pc,                 \* per handler: where the coroutine is suspended
    route,              \* per handler: the endpoint being served
    raw,                \* per handler: the JSON body as received
    request,            \* per handler: the validated ArtRequest
    payload,            \* per handler: the JSON sent upstream
    stage,              \* per handler: which try block of generate_art runs
    attempt_number,     \* per handler: tenacity's attempt counter
    calls,              \* per handler: upstream HTTP calls issued, in order
    sleeps,             \* per handler: the decorator's sleeps between attempts
    response            \* per handler: the HTTP response delivered

vars == <<HUGGINGFACE_TOKEN, concurrency, pc, route, raw, request, payload,
          stage, attempt_number, calls, sleeps, response>>

-----------------------------------------------------------------------------
(* Bounds of the model *)

NumHandlers == 2

Handlers == 1..NumHandlers

-----------------------------------------------------------------------------
(* Python values: None, an int, a str *)

None == [t |-> "None"]

PyInt(n) == [t |-> "int", v |-> n]

PyStr(s) == [t |-> "str", v |-> s]

\* bool(x) of an Optional[str]
Truthy(x) == x # None /\ x.v # ""

Digit(d) == <<"0", "1", "2", "3", "4", "5", "6", "7", "8", "9">>[d + 1]

RECURSIVE IntToStr(_)
IntToStr(n) ==
    IF n < 0 THEN "-" \o IntToStr(0 - n)
    ELSE IF n < 10 THEN Digit(n)
    ELSE IntToStr(n \div 10) \o Digit(n % 10)

\* "{x}" inside an f-string, for an Optional[int] or an Optional[str]
Format(x) ==
    IF x = None THEN "None"
    ELSE IF x.t = "int" THEN IntToStr(x.v)
    ELSE x.v

-----------------------------------------------------------------------------
(* Module-level configuration *)

PROMPT_MAX == 500

DIM_MIN == 128

DIM_MAX == 1024

DIM_DEFAULT == 512

MAX_ATTEMPTS == 3

WAIT_MULTIPLIER == 1

WAIT_MIN == 4

WAIT_MAX == 10

API_URLS ==
    [ m \in {"sd-v1-4", "sd-v1-5", "sd-xl", "openjourney"} |->
        CASE m = "sd-v1-4" ->
               "https://api-inference.huggingface.co/models/CompVis/stable-diffusion-v1-4"
          [] m = "sd-v1-5" ->
               "https://api-inference.huggingface.co/models/runwayml/stable-diffusion-v1-5"
          [] m = "sd-xl" ->
               "https://api-inference.huggingface.co/models/stabilityai/stable-diffusion-xl-base-1.0"
          [] m = "openjourney" ->
               "https://api-inference.huggingface.co/models/prompthero/openjourney" ]

API_URL == API_URLS["openjourney"]

headers == [Authorization |-> "Bearer " \o Format(HUGGINGFACE_TOKEN)]

valid_styles == {"realistic", "abstract", "impressionist", "pixel"}

STYLE_PROMPTS ==
    [ s \in {"realistic", "abstract", "impressionist", "pixel"} |->
        CASE s = "realistic" ->
               "highly detailed, photorealistic, 8k, ultra HD, professional photography, masterpiece"
          [] s = "abstract" ->
               "abstract art style, bold colors, geometric shapes, modern art, experimental, masterpiece"
          [] s = "impressionist" ->
               "impressionist painting style, loose brushstrokes, vibrant colors, light effects, masterpiece"
          [] s = "pixel" ->
               "pixel art style, 16-bit, retro gaming, nostalgic, crisp pixels, masterpiece" ]

-----------------------------------------------------------------------------
(* ArtRequest: the pydantic model and its validators.  A validator is the  *)
(* predicate "does not raise ValueError"; each returns its argument as is. *)

\* A length check that takes the error message's "less than 500" literally
validate_prompt_length_strict(v) == ~(Len(v) >= PROMPT_MAX)

validate_prompt_length(v) == ~(Len(v) > PROMPT_MAX)

validate_dimensions(v) == ~(v # None /\ (v.v < DIM_MIN \/ v.v > DIM_MAX))

validate_style(v) == ~(v \notin valid_styles)

\* A field left out of the body takes its default; prompt and style have none.
Field(body, name, default) ==
    IF name \in DOMAIN body THEN body[name] ELSE default

\* Does the body parse into an ArtRequest?  (422 from the framework if not.)
Accepts(body) ==
    /\ "prompt" \in DOMAIN body
    /\ "style" \in DOMAIN body
    /\ validate_prompt_length(body.prompt)
    /\ validate_style(body.style)
    /\ validate_dimensions(Field(body, "width", PyInt(DIM_DEFAULT)))
    /\ validate_dimensions(Field(body, "height", PyInt(DIM_DEFAULT)))

ArtRequest(body) ==
    [ prompt |-> body.prompt,
      style  |-> body.style,
      width  |-> Field(body, "width", PyInt(DIM_DEFAULT)),
      height |-> Field(body, "height", PyInt(DIM_DEFAULT)) ]

-----------------------------------------------------------------------------
(* What the handlers are given: request bodies and upstream outcomes *)

RECURSIVE Repeat(_, _)
Repeat(s, n) ==
    IF n = 0 THEN ""
    ELSE IF n % 2 = 0 THEN Repeat(s, n \div 2) \o Repeat(s, n \div 2)
    ELSE s \o Repeat(s, n - 1)

\* Bodies the framework hands to ArtRequest: the fields may be left out, and
\* width and height may be null.
RawBodies ==
    { [prompt |-> "a cat", style |-> "pixel"],
      [prompt |-> Repeat("a", PROMPT_MAX), style |-> "realistic",
       width |-> PyInt(DIM_MIN), height |-> PyInt(DIM_MAX)],
      [prompt |-> "a cat", style |-> "abstract", width |-> None, height |-> None],
      [prompt |-> "", style |-> "impressionist", width |-> PyInt(DIM_MAX)],
      [prompt |-> Repeat("a", PROMPT_MAX + 1), style |-> "pixel"],
      [prompt |-> "a cat", style |-> "cubist"],
      [prompt |-> "a cat", style |-> "pixel", width |-> PyInt(DIM_MIN - 1)],
      [prompt |-> "a cat", style |-> "pixel", height |-> PyInt(DIM_MAX + 1)],
      [style |-> "pixel"] }

\* Values os.getenv can give: unset, set but empty, set.
Tokens == {None, PyStr(""), PyStr("hf_secret")}

\* Response bodies of the upstream: empty, two bytes, b"PNGDATA"
ImageBytes == {<<>>, <<137, 80>>, <<80, 78, 71, 68, 65, 84, 65>>}

\* b'{}', the body of an upstream error response
ErrorBytes == <<123, 125>>

\* How one HTTP exchange with the upstream ends.
HttpResponse(status, body) == [kind |-> "response", status |-> status, body |-> body]

\* asyncio.TimeoutError: the total timeout of the exchange ran out
Timeout == [kind |-> "timeout"]

\* aiohttp.ClientConnectionError: refused, reset, DNS failure
NetworkError == [kind |-> "network"]

\* aiohttp.ClientPayloadError: status 200 was received and the body is malformed
PayloadError == [kind |-> "payload", status |-> 200]

Pending == [kind |-> "pending"]

PostOutcomes ==
    { HttpResponse(200, b) : b \in ImageBytes }
        \cup {HttpResponse(503, ErrorBytes), Timeout, NetworkError, PayloadError}

GetOutcomes ==
    { HttpResponse(s, <<>>) : s \in {200, 204, 503} } \cup {Timeout, NetworkError}

-----------------------------------------------------------------------------
(* base64.b64encode(content).decode() *)

B64Alphabet ==
    << "A", "B", "C", "D", "E", "F", "G", "H", "I", "J", "K", "L", "M",
       "N", "O", "P", "Q", "R", "S", "T", "U", "V", "W", "X", "Y", "Z",
       "a", "b", "c", "d", "e", "f", "g", "h", "i", "j", "k", "l", "m",
       "n", "o", "p", "q", "r", "s", "t", "u", "v", "w", "x", "y", "z",
       "0", "1", "2", "3", "4", "5", "6", "7", "8", "9", "+", "/" >>

B64Char(sextet) == B64Alphabet[sextet + 1]

RECURSIVE b64encode(_)
b64encode(b) ==
    IF Len(b) = 0 THEN ""
    ELSE IF Len(b) = 1 THEN
        B64Char(b[1] \div 4) \o B64Char((b[1] % 4) * 16) \o "=="
    ELSE IF Len(b) = 2 THEN
        B64Char(b[1] \div 4) \o B64Char((b[1] % 4) * 16 + b[2] \div 16)
            \o B64Char((b[2] % 16) * 4) \o "="
    ELSE
        B64Char(b[1] \div 4) \o B64Char((b[1] % 4) * 16 + b[2] \div 16)
            \o B64Char((b[2] % 16) * 4 + b[3] \div 64) \o B64Char(b[3] % 64)
            \o b64encode(SubSeq(b, 4, Len(b)))

-----------------------------------------------------------------------------
(* call_huggingface_api and its @retry decorator *)

\* An attempt that reads the body whatever the status is
Raises_status_unchecked(outcome) ==
    \/ outcome.kind \in {"timeout", "network"}
    \/ outcome.kind = "payload"

\* One attempt, lines 94-98: does the body of call_huggingface_api raise?
\* session.post raises on a timeout or a network error, line 97 raises on a
\* status other than 200, response.read() raises on a malformed body.
Raises(outcome) ==
    \/ outcome.kind \in {"timeout", "network"}
    \/ outcome.status # 200
    \/ outcome.kind = "payload"

\* A decorator that retried on every outcome, a returned one included
retry_always(outcome) == TRUE

\* @retry without a retry= argument: retry_if_exception_type(Exception)
retry_if_exception(outcome) == Raises(outcome)

\* A stop condition that is off by one
stop_after_attempt_exceeded(n) == n > MAX_ATTEMPTS

stop_after_attempt(n) == n >= MAX_ATTEMPTS

Min2(a, b) == IF a < b THEN a ELSE b

Max2(a, b) == IF a > b THEN a ELSE b

\* A wait that starts at WAIT_MIN and doubles: 4, 8, 10, ...
wait_exponential_from_min(n) == Min2(WAIT_MIN * 2 ^ (n - 1), WAIT_MAX)

\* tenacity: max(max(0, min), min(multiplier * 2 ** (attempt_number - 1), max))
wait_exponential(n) ==
    Max2(Max2(0, WAIT_MIN), Min2(WAIT_MULTIPLIER * 2 ^ (n - 1), WAIT_MAX))

\* A decorator without a stop condition: it retries until an attempt returns
Retrying_until_success(outcome, n) ==
    IF Raises(outcome) THEN "sleep" ELSE "return"

\* What the decorator does when attempt n has ended in outcome:
\*   "return"  the invocation returns the bytes read
\*   "raise"   the invocation raises (RetryError once the attempts are used up)
\*   "sleep"   the decorator sleeps and calls the function again
Retrying(outcome, n) ==
    IF ~retry_if_exception(outcome)
        THEN (IF Raises(outcome) THEN "raise" ELSE "return")
    ELSE IF stop_after_attempt(n) THEN "raise"
    ELSE "sleep"

\* The two call sites with their urls exchanged
ModelUrl_swapped(s) == IF s = "primary" THEN API_URLS["sd-v1-4"] ELSE API_URL

\* The url argument of the two call sites in generate_art, lines 148 and 155
ModelUrl(s) == IF s = "primary" THEN API_URL ELSE API_URLS["sd-v1-4"]

\* A POST that falls back to the default dimensions when it is a retry
Post_retry_with_defaults(s, json, n) ==
    [ method |-> "POST", url |-> ModelUrl(s), headers |-> headers,
      json |-> IF n = 1 THEN json
               ELSE [ inputs |-> json.inputs,
                      parameters |-> [ width |-> PyInt(DIM_DEFAULT),
                                       height |-> PyInt(DIM_DEFAULT) ] ],
      attempt |-> n, outcome |-> Pending ]

\* session.post(url, headers=headers, json=payload, timeout=90)
Post(s, json, n) ==
    [ method |-> "POST", url |-> ModelUrl(s), headers |-> headers,
      json |-> json, attempt |-> n, outcome |-> Pending ]

\* session.get(API_URL, headers=headers, timeout=5)
Get == [ method |-> "GET", url |-> API_URL, headers |-> headers,
         attempt |-> 1, outcome |-> Pending ]

\* The call in flight has ended.
Ended(cs, outcome) == [cs EXCEPT ![Len(cs)].outcome = outcome]

-----------------------------------------------------------------------------
(* generate_art *)

HTTPException(status_code) == [status_code |-> status_code]

\* FastAPI answers a raised HTTPException with its status code
ErrorResponse(exc) == [status |-> exc.status_code]

\* A token check that takes only an unset variable for missing
TokenMissing_unset_only == HUGGINGFACE_TOKEN = None

\* lines 131-132
TokenMissing == ~Truthy(HUGGINGFACE_TOKEN)

\* An enhancement that joins prompt and suffix with a bare comma
EnhancedPrompt_bare_comma(req) == req.prompt \o "," \o STYLE_PROMPTS[req.style]

\* line 135
EnhancedPrompt(req) == req.prompt \o ", " \o STYLE_PROMPTS[req.style]

\* lines 139-145
Payload(req) ==
    [ inputs |-> EnhancedPrompt(req),
      parameters |-> [width |-> req.width, height |-> req.height] ]

\* A response whose metadata echo the prompt that was sent upstream
BuildResponse_enhanced(content, req) ==
    [ status |-> 200,
      body |-> [ image |-> b64encode(content),
                 metadata |-> [ prompt |-> req.prompt \o ", " \o STYLE_PROMPTS[req.style],
                                style |-> req.style,
                                dimensions |-> Format(req.width) \o "x" \o Format(req.height),
                                model |-> "openjourney" ] ] ]

\* A response built from a request kept in one place for all handlers (the
\* first handler's slot) instead of the handler's own
BuildResponse_shared_request(content, req) ==
    LET kept == IF request[1] # None THEN request[1] ELSE req
    IN  [ status |-> 200,
          body |-> [ image |-> b64encode(content),
                     metadata |-> [ prompt |-> kept.prompt,
                                    style |-> kept.style,
                                    dimensions |-> Format(kept.width) \o "x" \o Format(kept.height),
                                    model |-> "openjourney" ] ] ]

\* lines 165-173.  b64encode raises for no bytes object, so the except of
\* lines 174-179 never runs.
BuildResponse(content, req) ==
    [ status |-> 200,
      body |-> [ image |-> b64encode(content),
                 metadata |-> [ prompt |-> req.prompt,
                                style |-> req.style,
                                dimensions |-> Format(req.width) \o "x" \o Format(req.height),
                                model |-> "openjourney" ] ] ]

\* lines 181-183: HTTPException is an Exception, so the outermost except
\* receives every exception raised inside the try of line 128.
OuterExcept(exc) == HTTPException(500)

\* lines 157-162, raised inside the try of line 128
FallbackFailed == OuterExcept(HTTPException(503))

-----------------------------------------------------------------------------
(* The handlers *)

Idle(h) == pc[h] = "idle"

InFlight == {h \in Handlers : pc[h] # "idle"}

Init ==
    /\ HUGGINGFACE_TOKEN \in Tokens
    /\ concurrency = 1
    /\ pc = [h \in Handlers |-> "idle"]
    /\ route = [h \in Handlers |-> "none"]
    /\ raw = [h \in Handlers |-> None]
    /\ request = [h \in Handlers |-> None]
    /\ payload = [h \in Handlers |-> None]
    /\ stage = [h \in Handlers |-> "none"]
    /\ attempt_number = [h \in Handlers |-> 0]
    /\ calls = [h \in Handlers |-> <<>>]
    /\ sleeps = [h \in Handlers |-> <<>>]
    /\ response = [h \in Handlers |-> None]

\* POST /api/generate arrives: the framework builds the ArtRequest (422 if
\* it cannot), then generate_art runs up to its first await, lines 128-148.
generate_art(h, body) ==
    /\ Idle(h)
    /\ Cardinality(InFlight) < concurrency
    /\ route' = [route EXCEPT ![h] = "generate"]
    /\ raw' = [raw EXCEPT ![h] = body]
    /\ IF ~Accepts(body) THEN
            /\ pc' = [pc EXCEPT ![h] = "done"]
            /\ response' = [response EXCEPT ![h] = [status |-> 422]]
            /\ UNCHANGED <<request, payload, stage, attempt_number, calls>>
       ELSE IF TokenMissing THEN
            /\ request' = [request EXCEPT ![h] = ArtRequest(body)]
            /\ pc' = [pc EXCEPT ![h] = "done"]
            /\ response' = [response EXCEPT ![h] =
                                ErrorResponse(OuterExcept(HTTPException(500)))]
            /\ UNCHANGED <<payload, stage, attempt_number, calls>>
       ELSE
            /\ request' = [request EXCEPT ![h] = ArtRequest(body)]
            /\ payload' = [payload EXCEPT ![h] = Payload(ArtRequest(body))]
            /\ stage' = [stage EXCEPT ![h] = "primary"]
            /\ attempt_number' = [attempt_number EXCEPT ![h] = 1]
            /\ calls' = [calls EXCEPT ![h] = Append(@, Post("primary", Payload(ArtRequest(body)), 1))]
            /\ pc' = [pc EXCEPT ![h] = "post"]
            /\ UNCHANGED response
    /\ UNCHANGED <<HUGGINGFACE_TOKEN, concurrency, sleeps>>

\* The POST in flight ends: the rest of the attempt (lines 96-98), the
\* decorator's decision, and what generate_art does with a returned or a
\* raised invocation (lines 149-183), up to the next await.
call_huggingface_api(h, outcome) ==
    /\ pc[h] = "post"
    /\ LET ended == Ended(calls[h], outcome)
           next  == Retrying(outcome, attempt_number[h])
       IN  CASE next = "return" ->
                    /\ calls' = [calls EXCEPT ![h] = ended]
                    /\ response' = [response EXCEPT ![h] =
                                        BuildResponse(outcome.body, request[h])]
                    /\ pc' = [pc EXCEPT ![h] = "done"]
                    /\ UNCHANGED <<stage, attempt_number, sleeps>>
             [] next = "sleep" ->
                    /\ calls' = [calls EXCEPT ![h] = ended]
                    /\ sleeps' = [sleeps EXCEPT ![h] =
                                      Append(@, [ stage |-> stage[h],
                                                  after |-> attempt_number[h],
                                                  seconds |-> wait_exponential(attempt_number[h]) ])]
                    /\ pc' = [pc EXCEPT ![h] = "sleep"]
                    /\ UNCHANGED <<stage, attempt_number, response>>
             [] next = "raise" /\ stage[h] = "primary" ->
                    /\ stage' = [stage EXCEPT ![h] = "fallback"]
                    /\ attempt_number' = [attempt_number EXCEPT ![h] = 1]
                    /\ calls' = [calls EXCEPT ![h] = Append(ended, Post("fallback", payload[h], 1))]
                    /\ UNCHANGED <<pc, sleeps, response>>
             [] next = "raise" /\ stage[h] # "primary" ->
                    /\ calls' = [calls EXCEPT ![h] = ended]
                    /\ response' = [response EXCEPT ![h] = ErrorResponse(FallbackFailed)]
                    /\ pc' = [pc EXCEPT ![h] = "done"]
                    /\ UNCHANGED <<stage, attempt_number, sleeps>>
    /\ UNCHANGED <<HUGGINGFACE_TOKEN, concurrency, route, raw, request, payload>>

\* The decorator's sleep is over: the next attempt posts to the same url.
retry(h) ==
    /\ pc[h] = "sleep"
    /\ attempt_number' = [attempt_number EXCEPT ![h] = @ + 1]
    /\ calls' = [calls EXCEPT ![h] =
                    Append(@, Post(stage[h], payload[h], attempt_number[h] + 1))]
    /\ pc' = [pc EXCEPT ![h] = "post"]
    /\ UNCHANGED <<HUGGINGFACE_TOKEN, concurrency, route, raw, request, payload,
                   stage, sleeps, response>>

\* A probe that takes every 2xx status for reachable
ApiStatus_any_2xx(outcome) ==
    IF outcome.kind \in {"timeout", "network"} THEN FALSE ELSE outcome.status < 300

\* line 191 and the bare except of lines 192-193
ApiStatus(outcome) ==
    IF outcome.kind \in {"timeout", "network"} THEN FALSE ELSE outcome.status = 200

\* lines 195-202
HealthResponse(api_status) ==
    [ status |-> 200,
      body |-> [ status |-> "healthy",
                 token_configured |-> Truthy(HUGGINGFACE_TOKEN),
                 huggingface_api_status |-> api_status,
                 available_styles |-> <<"realistic", "abstract", "impressionist", "pixel">>,
                 current_model |-> "openjourney",
                 fallback_model |-> "stable-diffusion-v1-4" ] ]

\* GET /health arrives: health_check runs up to its await, lines 188-190.
health_check(h) ==
    /\ Idle(h)
    /\ Cardinality(InFlight) < concurrency
    /\ route' = [route EXCEPT ![h] = "health"]
    /\ calls' = [calls EXCEPT ![h] = Append(@, Get)]
    /\ pc' = [pc EXCEPT ![h] = "get"]
    /\ UNCHANGED <<HUGGINGFACE_TOKEN, concurrency, raw, request, payload, stage,
                   attempt_number, sleeps, response>>

\* The GET in flight ends, lines 191-202.
health_checked(h, outcome) ==
    /\ pc[h] = "get"
    /\ calls' = [calls EXCEPT ![h] = Ended(@, outcome)]
    /\ response' = [response EXCEPT ![h] = HealthResponse(ApiStatus(outcome))]
    /\ pc' = [pc EXCEPT ![h] = "done"]
    /\ UNCHANGED <<HUGGINGFACE_TOKEN, concurrency, route, raw, request, payload,
                   stage, attempt_number, sleeps>>

\* The response has been sent; everything the handler held is request-scoped.
Close(h) ==
    /\ pc[h] = "done"
    /\ pc' = [pc EXCEPT ![h] = "idle"]
    /\ route' = [route EXCEPT ![h] = "none"]
    /\ raw' = [raw EXCEPT ![h] = None]
    /\ request' = [request EXCEPT ![h] = None]
    /\ payload' = [payload EXCEPT ![h] = None]
    /\ stage' = [stage EXCEPT ![h] = "none"]
    /\ attempt_number' = [attempt_number EXCEPT ![h] = 0]
    /\ calls' = [calls EXCEPT ![h] = <<>>]
    /\ sleeps' = [sleeps EXCEPT ![h] = <<>>]
    /\ response' = [response EXCEPT ![h] = None]
    /\ UNCHANGED <<HUGGINGFACE_TOKEN, concurrency>>

Generate == \E h \in Handlers : \E body \in RawBodies : generate_art(h, body)

Attempt == \E h \in Handlers : \E outcome \in PostOutcomes : call_huggingface_api(h, outcome)

Retry == \E h \in Handlers : retry(h)

Health == \E h \in Handlers : health_check(h)

HealthChecked == \E h \in Handlers : \E outcome \in GetOutcomes : health_checked(h, outcome)

Closed == \E h \in Handlers : Close(h)

Next == Generate \/ Attempt \/ Retry \/ Health \/ HealthChecked \/ Closed

Spec == Init /\ [][Next]_vars

\* Every exchange with the upstream ends (aiohttp's timeouts of 90 s and 5 s
\* see to it), and so does every sleep of the decorator.
Fairness ==
    \A h \in Handlers :
        /\ WF_vars(\E outcome \in PostOutcomes : call_huggingface_api(h, outcome))
        /\ WF_vars(retry(h))
        /\ WF_vars(\E outcome \in GetOutcomes : health_checked(h, outcome))

SpecFair == Spec /\ Fairness

-----------------------------------------------------------------------------
(* The same handlers over every combination of field values, with an       *)
(* upstream that answers each POST with an image or with a 503.            *)

Absent == [t |-> "absent"]

Prompts == {"", "a cat", Repeat("a", PROMPT_MAX), Repeat("a", PROMPT_MAX + 1)}

Styles == {"realistic", "abstract", "impressionist", "pixel", "cubist", "Pixel"}

Dimensions ==
    {Absent, None} \cup
        { PyInt(n) : n \in {DIM_MIN - 1, DIM_MIN, DIM_DEFAULT, DIM_MAX, DIM_MAX + 1} }

\* The JSON object with the given fields; Absent leaves width or height out
Body(p, s, w, ht) ==
    LET keys == {"prompt", "style"}
                    \cup (IF w = Absent THEN {} ELSE {"width"})
                    \cup (IF ht = Absent THEN {} ELSE {"height"})
    IN  [ k \in keys |-> CASE k = "prompt" -> p
                           [] k = "style" -> s
                           [] k = "width" -> w
                           [] k = "height" -> ht ]

AllBodies ==
    { Body(p, s, w, ht) : p \in Prompts, s \in Styles, w \in Dimensions, ht \in Dimensions }
        \cup {[style |-> "pixel"], [prompt |-> "a cat"]}

ImageOr503 ==
    {HttpResponse(200, <<137, 80>>), HttpResponse(200, <<80, 78, 71, 68, 65, 84, 65>>),
     HttpResponse(503, ErrorBytes)}

GenerateAny == \E h \in Handlers : \E body \in AllBodies : generate_art(h, body)

AttemptImageOr503 ==
    \E h \in Handlers : \E outcome \in ImageOr503 : call_huggingface_api(h, outcome)

NextBodies == GenerateAny \/ AttemptImageOr503 \/ Retry \/ Closed

SpecBodies == Init /\ [][NextBodies]_vars

-----------------------------------------------------------------------------
(* The same handlers with two requests in flight at a time: the event loop *)
(* runs one handler up to its next await, then any handler that is ready.  *)

InitConcurrent ==
    /\ HUGGINGFACE_TOKEN \in Tokens
    /\ concurrency = 2
    /\ pc = [h \in Handlers |-> "idle"]
    /\ route = [h \in Handlers |-> "none"]
    /\ raw = [h \in Handlers |-> None]
    /\ request = [h \in Handlers |-> None]
    /\ payload = [h \in Handlers |-> None]
    /\ stage = [h \in Handlers |-> "none"]
    /\ attempt_number = [h \in Handlers |-> 0]
    /\ calls = [h \in Handlers |-> <<>>]
    /\ sleeps = [h \in Handlers |-> <<>>]
    /\ response = [h \in Handlers |-> None]

FewBodies ==
    { [prompt |-> "a cat", style |-> "pixel"],
      [prompt |-> "a dog", style |-> "abstract", width |-> None, height |-> PyInt(DIM_MAX)],
      [prompt |-> "a cat", style |-> "cubist"] }

GenerateFew == \E h \in Handlers : \E body \in FewBodies : generate_art(h, body)

NextConcurrent ==
    GenerateFew \/ AttemptImageOr503 \/ Retry \/ Health \/ HealthChecked \/ Closed

SpecConcurrent == InitConcurrent /\ [][NextConcurrent]_vars

-----------------------------------------------------------------------------
(* Vocabulary of the properties *)

Generating(h) == route[h] = "generate"

Probing(h) == route[h] = "health"

Done(h) == pc[h] = "done"

PrimaryEndpoint == "https://api-inference.huggingface.co/models/prompthero/openjourney"

FallbackEndpoint == "https://api-inference.huggingface.co/models/CompVis/stable-diffusion-v1-4"

\* The name under which API_URLS lists a url
ModelName(url) == CHOOSE m \in DOMAIN API_URLS : API_URLS[m] = url

\* An attempt succeeded: status 200 and the body was read
Succeeded(c) == c.outcome.kind = "response" /\ c.outcome.status = 200

\* An attempt failed in one of the ways the retry policy calls transient
Transient(c) ==
    \/ c.outcome.kind \in {"timeout", "network"}
    \/ c.outcome.kind = "response" /\ c.outcome.status # 200

\* An attempt failed in a way that is neither: the body of a 200 was malformed
Fatal(c) == c.outcome.kind = "payload"

Failed(c) == Transient(c) \/ Fatal(c)

\* The attempts handler h made against url, in order
Attempts(h, url) == SelectSeq(calls[h], LAMBDA c : c.url = url)

\* The invocation of call_huggingface_api against url has returned or raised
InvocationOver(h, url) ==
    /\ Attempts(h, url) # <<>>
    /\ \/ Done(h)
       \/ url = PrimaryEndpoint /\ stage[h] = "fallback"

AllOf(seq, P(_)) == \A i \in 1..Len(seq) : P(seq[i])

\* Index of the first successful attempt of seq, Len(seq) + 1 if there is none
FirstSuccess(seq) ==
    IF \E i \in 1..Len(seq) : Succeeded(seq[i])
        THEN CHOOSE i \in 1..Len(seq) :
                /\ Succeeded(seq[i])
                /\ \A j \in 1..(i - 1) : ~Succeeded(seq[j])
        ELSE Len(seq) + 1

\* Every attempt of the request failed, against the primary and the fallback
BothExhausted(h) ==
    /\ Generating(h) /\ Done(h)
    /\ Attempts(h, PrimaryEndpoint) # <<>>
    /\ Attempts(h, FallbackEndpoint) # <<>>
    /\ AllOf(calls[h], Failed)

-----------------------------------------------------------------------------
(* Properties *)

\* C1: a validated request with a configured token whose attempts all fail,
\* against the primary and against the fallback, is answered with status 503.
C1_ExhaustedIs503 ==
    \A h \in Handlers :
        (BothExhausted(h) /\ Accepts(raw[h]) /\ Truthy(HUGGINGFACE_TOKEN))
            => response[h].status = 503

\* C2: metadata.model of a success response names the endpoint whose attempt
\* returned the image bytes.
C2_ModelNamesProducer ==
    \A h \in Handlers :
        (Generating(h) /\ Done(h) /\ response[h].status = 200)
            => response[h].body.metadata.model = ModelName(calls[h][Len(calls[h])].url)

\* C3: within one generate request the first POST goes to the primary, only
\* the primary and the fallback are contacted, the fallback is contacted only
\* after the primary's attempts have all ended in failure and its retry
\* sequence starts at most once, the primary is not contacted again after the
\* fallback, and a successful primary attempt rules the fallback out.
C3_CallOrder ==
    \A h \in Handlers :
        (Generating(h) /\ calls[h] # <<>>) =>
            LET cs == calls[h]
                N  == Len(cs)
            IN  /\ cs[1].url = PrimaryEndpoint
                /\ \A i \in 1..N : /\ cs[i].method = "POST"
                                   /\ cs[i].url \in {PrimaryEndpoint, FallbackEndpoint}
                /\ \A i \in 1..N : \A j \in i..N :
                        cs[i].url = FallbackEndpoint => cs[j].url = FallbackEndpoint
                /\ (\E i \in 1..N : cs[i].url = FallbackEndpoint) =>
                        /\ Len(Attempts(h, PrimaryEndpoint)) = MAX_ATTEMPTS
                        /\ AllOf(Attempts(h, PrimaryEndpoint), Failed)
                /\ Cardinality({i \in 1..N : /\ cs[i].url = FallbackEndpoint
                                             /\ cs[i].attempt = 1}) <= 1
                /\ (\E i \in 1..N : cs[i].url = PrimaryEndpoint /\ Succeeded(cs[i])) =>
                        Attempts(h, FallbackEndpoint) = <<>>

\* C3's case: the primary has failed three times and the fallback is in flight
C3_Witness ==
    \E h \in Handlers :
        /\ Generating(h) /\ pc[h] = "post"
        /\ Len(Attempts(h, PrimaryEndpoint)) = MAX_ATTEMPTS
        /\ Len(Attempts(h, FallbackEndpoint)) = 2

\* C4: an invocation of call_huggingface_api whose every attempt fails with a
\* non-200 status, a timeout or a network error makes exactly 3 attempts, and
\* its caller sees it fail: after the primary the fallback is tried, after the
\* fallback the request is answered with an error.  No invocation makes more
\* than 3 attempts.
C4_ExactlyThreeAttempts ==
    \A h \in Handlers : \A url \in {PrimaryEndpoint, FallbackEndpoint} :
        Generating(h) =>
            LET as == Attempts(h, url)
            IN  /\ Len(as) <= 3
                /\ (InvocationOver(h, url) /\ AllOf(as, Transient)) =>
                        /\ Len(as) = 3
                        /\ url = PrimaryEndpoint => Attempts(h, FallbackEndpoint) # <<>>
                        /\ url = FallbackEndpoint => response[h].status >= 400

\* C4's case: three transient failures against each endpoint, request answered
C4_Witness ==
    \E h \in Handlers :
        /\ Generating(h) /\ Done(h)
        /\ Len(calls[h]) = 6
        /\ AllOf(calls[h], Transient)
        /\ \E i \in 1..3 : calls[h][i].outcome = Timeout
        /\ \E i \in 4..6 : calls[h][i].outcome.kind = "response"

\* C5: attempts stop at the first success (status 200, body read): it is the
\* last call of the request, the response carries its bytes, and a finished
\* invocation has made min(3, index of its first success) attempts.
C5_StopAtFirstSuccess ==
    \A h \in Handlers :
        Generating(h) =>
            /\ \A i \in 1..Len(calls[h]) :
                    Succeeded(calls[h][i]) =>
                        /\ i = Len(calls[h])
                        /\ Done(h)
                        /\ response[h].status = 200
                        /\ response[h].body.image = b64encode(calls[h][i].outcome.body)
            /\ \A url \in {PrimaryEndpoint, FallbackEndpoint} :
                    InvocationOver(h, url) =>
                        Len(Attempts(h, url)) = Min2(3, FirstSuccess(Attempts(h, url)))

\* C5's case: attempts 1 and 2 against the primary failed, attempt 3 succeeded
C5_Witness ==
    \E h \in Handlers :
        /\ Generating(h) /\ Done(h)
        /\ Len(calls[h]) = 3
        /\ Failed(calls[h][1]) /\ Failed(calls[h][2]) /\ Succeeded(calls[h][3])
        /\ calls[h][3].outcome.body # <<>>
        /\ response[h].status = 200

\* C6: every upstream POST comes from a request whose prompt has at most 500
\* characters, whose style is one of the four, and whose width and height are
\* integers in [128,1024], and it carries those integers as its parameters.
C6_OnlyValidatedReachesUpstream ==
    \A h \in Handlers : \A i \in 1..Len(calls[h]) :
        (Generating(h) /\ calls[h][i].method = "POST") =>
            LET InRange(v) == v.t = "int" /\ v.v >= 128 /\ v.v <= 1024
            IN  /\ Len(request[h].prompt) <= 500
                /\ request[h].style \in {"realistic", "abstract", "impressionist", "pixel"}
                /\ InRange(request[h].width) /\ InRange(request[h].height)
                /\ InRange(calls[h][i].json.parameters.width)
                /\ InRange(calls[h][i].json.parameters.height)
                /\ calls[h][i].json.parameters.width = request[h].width
                /\ calls[h][i].json.parameters.height = request[h].height

\* C7: with no token configured (unset or empty) a validated generate request
\* is answered with status 500 and makes no upstream call.
C7_NoTokenFailsFast ==
    \A h \in Handlers :
        (Generating(h) /\ Accepts(raw[h]) /\ HUGGINGFACE_TOKEN \in {None, PyStr("")}) =>
            /\ Done(h)
            /\ response[h].status = 500
            /\ calls[h] = <<>>

\* C7's case: the variable is set but empty and a valid request was answered
C7_Witness ==
    \E h \in Handlers :
        /\ Generating(h) /\ Done(h) /\ Accepts(raw[h])
        /\ HUGGINGFACE_TOKEN = PyStr("")
        /\ response[h].status = 500

\* C8: a 200 with an empty body is answered with status 500, and no success
\* response carries an empty image string.
C8_EmptyBodyIs500 ==
    \A h \in Handlers :
        (Generating(h) /\ Done(h)) =>
            /\ (/\ calls[h] # <<>>
                /\ Succeeded(calls[h][Len(calls[h])])
                /\ calls[h][Len(calls[h])].outcome.body = <<>>) => response[h].status = 500
            /\ response[h].status = 200 => response[h].body.image # ""

\* C9: an attempt that ends in a fatal failure is the last attempt against
\* its endpoint.
C9_FatalNotRetried ==
    \A h \in Handlers : \A i \in 1..Len(calls[h]) :
        (Generating(h) /\ Fatal(calls[h][i])) =>
            \A j \in (i + 1)..Len(calls[h]) : calls[h][j].url # calls[h][i].url

\* C10: GET /health makes one GET to the primary and answers 200 whatever
\* becomes of it; huggingface_api_status is true exactly when the GET
\* returned status 200.
C10_HealthNeverErrors ==
    \A h \in Handlers :
        (Probing(h) /\ Done(h)) =>
            /\ Len(calls[h]) = 1
            /\ calls[h][1].method = "GET" /\ calls[h][1].url = PrimaryEndpoint
            /\ response[h].status = 200
            /\ response[h].body.huggingface_api_status =
                    (/\ calls[h][1].outcome.kind = "response"
                     /\ calls[h][1].outcome.status = 200)

\* C10's case: the probe timed out and the handler answered
C10_Witness ==
    \E h \in Handlers :
        /\ Probing(h) /\ Done(h)
        /\ calls[h][1].outcome = Timeout
        /\ response[h].status = 200
        /\ response[h].body.huggingface_api_status = FALSE

\* The request was turned away by the framework's validation
Rejected(h) == Generating(h) /\ Done(h) /\ response[h].status = 422

\* The field is in the body and is not null
Given(body, name) == name \in DOMAIN body /\ body[name] # None

C12_EnhancementTotal ==
    /\ valid_styles = DOMAIN STYLE_PROMPTS
    /\ \A h \in Handlers :
        (Generating(h) /\ ~Rejected(h)) =>
            /\ raw[h].style \in DOMAIN STYLE_PROMPTS
            /\ \A i \in 1..Len(calls[h]) :
                    calls[h][i].json.inputs =
                        raw[h].prompt \o ", " \o STYLE_PROMPTS[raw[h].style]

\* C12's case: an impressionist cat is on its way to the fallback
C12_Witness ==
    \E h \in Handlers :
        /\ Generating(h) /\ pc[h] = "post"
        /\ raw[h].style = "impressionist"
        /\ Len(calls[h]) = 4
        /\ calls[h][4].json.inputs =
             "a cat, impressionist painting style, loose brushstrokes, vibrant colors, light effects, masterpiece"

\* The width or height the handler works with: the body's, 512 if left out
Requested(body, name) == IF name \in DOMAIN body THEN body[name] ELSE PyInt(512)

\* C13: the metadata of a success response carry the prompt and the style as
\* requested, never the enhanced prompt, and dimensions is the requested
\* width, "x", the requested height: "512x512" when both are left out.
C13_MetadataEchoRequest ==
    \A h \in Handlers :
        (Generating(h) /\ Done(h) /\ response[h].status = 200) =>
            LET md == response[h].body.metadata
                b  == raw[h]
            IN  /\ md.prompt = b.prompt
                /\ md.prompt # calls[h][1].json.inputs
                /\ md.style = b.style
                /\ md.dimensions =
                        Format(Requested(b, "width")) \o "x" \o Format(Requested(b, "height"))
                /\ DOMAIN b = {"prompt", "style"} => md.dimensions = "512x512"
                /\ (/\ Requested(b, "width") = PyInt(128)
                    /\ Requested(b, "height") = PyInt(1024)) => md.dimensions = "128x1024"

\* C13's case: no width, no height, the image came from the fallback
C13_Witness ==
    \E h \in Handlers :
        /\ Generating(h) /\ Done(h) /\ response[h].status = 200
        /\ DOMAIN raw[h] = {"prompt", "style"}
        /\ Len(calls[h]) = 4
        /\ response[h].body.metadata.dimensions = "512x512"
        /\ response[h].body.metadata.prompt = "a cat"

\* The seconds slept inside the invocation that stage s of handler h runs
Delays(h, s) ==
    LET own == SelectSeq(sleeps[h], LAMBDA d : d.stage = s)
    IN  [ n \in 1..Len(own) |-> own[n].seconds ]

\* C14 as stated: inside one invocation the delay after failed attempt n is
\* min(10, 4 * 2^(n-1)) seconds, or else every delay lies in [4,10] and each
\* delay is longer than the one before.
C14_ExponentialFromFour ==
    \A h \in Handlers : \A s \in {"primary", "fallback"} :
        LET d == Delays(h, s)
        IN  \/ \A n \in 1..Len(d) : d[n] = Min2(10, 4 * 2 ^ (n - 1))
            \/ /\ \A n \in 1..Len(d) : d[n] >= 4 /\ d[n] <= 10
               /\ \A n \in 1..(Len(d) - 1) : d[n] < d[n + 1]

\* C14 as amended: the delay after failed attempt n is max(4, min(10, 2^(n-1)))
\* seconds, which is 4 seconds after attempt 1 and 4 seconds after attempt 2;
\* every delay lies in [4,10] and no delay is shorter than the one before.
C14_FourThenFour ==
    \A h \in Handlers : \A s \in {"primary", "fallback"} :
        LET d   == Delays(h, s)
            own == SelectSeq(sleeps[h], LAMBDA x : x.stage = s)
        IN  /\ Len(d) <= 2
            /\ \A n \in 1..Len(d) :
                    /\ own[n].after = n
                    /\ d[n] = Max2(4, Min2(10, 2 ^ (n - 1)))
                    /\ d[n] = 4
                    /\ d[n] >= 4 /\ d[n] <= 10
            /\ \A n \in 1..(Len(d) - 1) : d[n] <= d[n + 1]

\* C14's case: the decorator is in its second sleep of one invocation
C14_Witness ==
    \E h \in Handlers :
        /\ pc[h] = "sleep"
        /\ Delays(h, "fallback") = <<4, 4>>

\* Everything handler h holds
HandlerState(h) ==
    <<pc[h], route[h], raw[h], request[h], payload[h], stage[h],
      attempt_number[h], calls[h], sleeps[h], response[h]>>

\* How the calls of handler h that have ended did end, in order
Outcomes(h) ==
    LET ended == SelectSeq(calls[h], LAMBDA c : c.outcome # Pending)
    IN  [ i \in 1..Len(ended) |-> ended[i].outcome ]

\* The answer to a validated request served on its own whose upstream calls
\* end in outs: attempt n of the primary (s = "primary") or of the fallback
\* comes first.  None while the request still waits for the upstream.
RECURSIVE AloneAfter(_, _, _, _)
AloneAfter(req, outs, s, n) ==
    IF outs = <<>> THEN None
    ELSE LET o == Head(outs)
         IN  IF o.kind = "response" /\ o.status = 200 THEN
                 [ status |-> 200,
                   body |-> [ image |-> b64encode(o.body),
                              metadata |->
                                  [ prompt |-> req.prompt,
                                    style |-> req.style,
                                    dimensions |->
                                        Format(req.width) \o "x" \o Format(req.height),
                                    model |-> "openjourney" ] ] ]
             ELSE IF n < 3 THEN AloneAfter(req, Tail(outs), s, n + 1)
             ELSE IF s = "primary" THEN AloneAfter(req, Tail(outs), "fallback", 1)
             ELSE [status |-> 500]

\* The answer to the request of handler h had it been the only one
Alone(h) ==
    IF Probing(h) THEN
        IF Outcomes(h) = <<>> THEN None
        ELSE [ status |-> 200,
               body |-> [ status |-> "healthy",
                          token_configured |-> HUGGINGFACE_TOKEN \notin {None, PyStr("")},
                          huggingface_api_status |->
                              (/\ Outcomes(h)[1].kind = "response"
                               /\ Outcomes(h)[1].status = 200),
                          available_styles |->
                              <<"realistic", "abstract", "impressionist", "pixel">>,
                          current_model |-> "openjourney",
                          fallback_model |-> "stable-diffusion-v1-4" ] ]
    ELSE IF Rejected(h) THEN [status |-> 422]
    ELSE IF HUGGINGFACE_TOKEN \in {None, PyStr("")} THEN [status |-> 500]
    ELSE AloneAfter([ prompt |-> raw[h].prompt, style |-> raw[h].style,
                      width |-> Requested(raw[h], "width"),
                      height |-> Requested(raw[h], "height") ],
                    Outcomes(h), "primary", 1)

\* C15: with requests interleaved, no step changes the token or the headers
\* (the style table and the url table are constants of the module), a step
\* of one handler leaves what the other handlers hold as it was, and every
\* request gets the answer it would get alone with the same upstream
\* outcomes, no sooner and no later.
C15_RequestsIndependent ==
    /\ [][ /\ HUGGINGFACE_TOKEN' = HUGGINGFACE_TOKEN
           /\ headers' = headers
           /\ \E h \in Handlers :
                \A g \in Handlers \ {h} : HandlerState(g)' = HandlerState(g) ]_vars
    /\ [](\A h \in Handlers :
            pc[h] # "idle" =>
                /\ response[h] = Alone(h)
                /\ Done(h) <=> response[h] # None)

\* C15's case: two different requests in flight, one answered with an image
\* while the other still retries
C15_Witness ==
    \E h \in Handlers : \E g \in Handlers \ {h} :
        /\ Generating(h) /\ Done(h) /\ response[h].status = 200
        /\ Generating(g) /\ pc[g] = "sleep"
        /\ raw[g] # raw[h]

\* C16: a generate request that has gone upstream is answered in the end;
\* it makes at most 6 POSTs, at most 3 to the primary and at most 3 to the
\* fallback, none to the primary once the fallback has been tried; it has a
\* response exactly when it is done, and that response is never replaced.
C16_TerminatesWithinSixPosts ==
    /\ \A h \in Handlers :
            (Generating(h) /\ pc[h] \in {"post", "sleep"}) ~> Done(h)
    /\ [](\A h \in Handlers :
            Generating(h) =>
                /\ Len(calls[h]) <= 6
                /\ Len(Attempts(h, PrimaryEndpoint)) <= 3
                /\ Len(Attempts(h, FallbackEndpoint)) <= 3
                /\ \A i \in 1..Len(calls[h]) : \A j \in i..Len(calls[h]) :
                        calls[h][i].url = FallbackEndpoint =>
                            calls[h][j].url # PrimaryEndpoint
                /\ Done(h) <=> response[h] # None)
    /\ [][\A h \in Handlers :
            response[h] # None => response'[h] \in {response[h], None}]_vars

\* C16's case: the sixth POST of a request brought the image
C16_Witness ==
    \E h \in Handlers :
        /\ Generating(h) /\ Done(h)
        /\ Len(calls[h]) = 6
        /\ Succeeded(calls[h][6])
        /\ response[h].status = 200

\* base64 of the bodies the upstream sends, as Python computes it
KnownBase64(b) ==
    CASE b = <<>> -> ""
      [] b = <<137, 80>> -> "iVA="
      [] b = <<80, 78, 71, 68, 65, 84, 65>> -> "UE5HREFUQQ=="
      [] b = <<123, 125>> -> "e30="

\* C17: a success response means that exactly one attempt of the request
\* returned status 200, that it was the last one made, and that the image is
\* the base64 of its bytes; the body of an attempt that failed is not in it.
C17_ImageFromTheSuccessfulAttempt ==
    \A h \in Handlers :
        (Generating(h) /\ Done(h) /\ response[h].status = 200) =>
            LET cs == calls[h]
                N  == Len(cs)
                Is200(c) == c.outcome.kind = "response" /\ c.outcome.status = 200
            IN  /\ N >= 1
                /\ {i \in 1..N : Is200(cs[i])} = {N}
                /\ response[h].body.image = KnownBase64(cs[N].outcome.body)
                /\ \A i \in 1..(N - 1) :
                        cs[i].outcome.kind = "response" =>
                            \/ response[h].body.image # KnownBase64(cs[i].outcome.body)
                            \/ cs[i].outcome.body = cs[N].outcome.body

\* C17's case: a 503 with a body, then a 200 with b"PNGDATA"
C17_Witness ==
    \E h \in Handlers :
        /\ Generating(h) /\ Done(h)
        /\ Len(calls[h]) = 2
        /\ calls[h][1].outcome = HttpResponse(503, <<123, 125>>)
        /\ response[h].status = 200
        /\ response[h].body.image = "UE5HREFUQQ=="

\* C18: every POST of a request carries the inputs, the width and height and
\* the Authorization header of the first one, which are the enhanced prompt,
\* the requested dimensions and the bearer token; POSTs to the primary and
\* to the fallback differ in their url only.
C18_SamePayloadEveryAttempt ==
    \A h \in Handlers :
        Generating(h) =>
            \A i \in 1..Len(calls[h]) :
                LET c == calls[h][i]
                    first == calls[h][1]
                IN  /\ c.json = first.json
                    /\ c.headers = first.headers
                    /\ c.method = first.method
                    /\ c.json.inputs = raw[h].prompt \o ", " \o STYLE_PROMPTS[raw[h].style]
                    /\ c.json.parameters = [ width |-> Requested(raw[h], "width"),
                                             height |-> Requested(raw[h], "height") ]
                    /\ c.headers = [Authorization |-> "Bearer hf_secret"]
                    /\ c.url = IF i <= 3 THEN PrimaryEndpoint ELSE FallbackEndpoint

\* C18's case: the sixth POST of a 128x1024 request is in flight
C18_Witness ==
    \E h \in Handlers :
        /\ Generating(h) /\ pc[h] = "post"
        /\ Len(calls[h]) = 6
        /\ calls[h][6].url = FallbackEndpoint
        /\ calls[h][6].json.parameters = [width |-> PyInt(128), height |-> PyInt(1024)]

====
